---- MODULE Spec2Model ----
(***************************************************************************)
(* CodeSolver AI: the model-fallback streaming gateway (the POST handler   *)
(* of the chat API route, with its process-wide model cache) and the       *)
(* client-side transcript reducer (ChatApp).                               *)
(*                                                                         *)
(* Strings of the program whose characters matter are sequences: a model   *)
(* name is a sequence of tokens (<<"models/", "gemini-pro">>), a text is a *)
(* sequence of code points (<<104, 105>> is "hi"), a chunk is a sequence   *)
(* of bytes.                                                               *)
(***************************************************************************)
EXTENDS Integers, Sequences, FiniteSets, TLC

VARIABLES
    apiKey,               \* process.env.GEMINI_API_KEY
    clock,                \* Date.now() of the gateway process
    cachedModels,         \* let cachedModels: string[]
    lastModelFetchTime,   \* let lastModelFetchTime: number
    cacheVersion,         \* history: number of writes of the cache so far
    req,                  \* the POST invocations, each with its locals and, as
                          \* history, the listing it received
    chats,                \* useState<ChatSession[]>([])
    activeChatId,         \* useState("")
    input,                \* useState(""): the draft text
    inputImage,           \* useState<ChatImage | null>(null)
    isStreaming,          \* useState(false)
    errorMessage,         \* useState("")
    nextId,               \* the ids createId() has handed out so far
    subs,                 \* the sendMessage invocations that passed the guard, each
                          \* with its locals and, as history, the bytes it has
                          \* received and the failure string it ended with
    refused               \* history: since isStreaming was last set, sendMessage
                          \* was called with a draft and returned at its guard

gatewayVars == <<apiKey, clock, cachedModels, lastModelFetchTime, cacheVersion, req>>

clientVars ==
    <<chats, activeChatId, input, inputImage, isStreaming, errorMessage, nextId, subs, refused>>

vars ==
    <<apiKey, clock, cachedModels, lastModelFetchTime, cacheVersion, req,
      chats, activeChatId, input, inputImage, isStreaming, errorMessage, nextId, subs, refused>>

-----------------------------------------------------------------------------
(* Bounds of the model *)

MaxRequests == 2
MaxTicks == 2
MaxChunks == 2
MaxChats == 2
MaxSubmits == 2
MaxReads == 2
MaxMessages == 3
MaxListed == 4

Reqs == 1..MaxRequests

-----------------------------------------------------------------------------
(* Constants of the gateway *)

CACHE_DURATION_MS == 60 * 60 * 1000

PREFERRED_MODEL_ORDER ==
    << <<"gemini-1.5-pro-latest">>, <<"gemini-1.5-flash-latest">>, <<"gemini-pro">> >>

Absent == "<undefined>"

ApiKeys == {Absent, "", "AIza-key"}

\* The clock advances by half a TTL or a whole one, so that the age of the
\* cache takes the values 0, TTL/2, TTL (the boundary) and beyond.
TickSteps == {CACHE_DURATION_MS \div 2, CACHE_DURATION_MS}

MsgMissingKey == "Missing GEMINI_API_KEY. Add it to your environment variables."
MsgInvalidMessages == "Invalid request. 'messages' must be a non-empty array."
MsgNoModels == "No Gemini models with generateContent support are available for this API key."
MsgUnavailable == "The AI service is currently unavailable. Please try again later."
MsgInvalidBody == "Invalid request body. Expected JSON payload."

-----------------------------------------------------------------------------
(* JavaScript values of a request body *)

JsUndefined == [t |-> "undefined", arr |-> <<>>]
JsNull == [t |-> "null", arr |-> <<>>]
JsString == [t |-> "string", arr |-> <<>>]
JsObject == [t |-> "object", arr |-> <<>>]
JsArray(a) == [t |-> "array", arr |-> a]

\* the `image` of a message: absent, or a picture named "a.png"
NoImage == [present |-> FALSE, mimeType |-> "", data |-> "", name |-> <<>>]

Png ==
    [present |-> TRUE, mimeType |-> "image/png", data |-> "iVBORw0KGgo=",
     name |-> <<97, 46, 112, 110, 103>>]

UserMsg == [role |-> "user", content |-> <<104, 105>>, image |-> NoImage]

\* What the client can put in the request: text that is no JSON, the JSON
\* value null, or an object whose `messages` is one of the values below.
Bodies ==
    { [json |-> FALSE, isNull |-> FALSE, messages |-> JsUndefined],
      [json |-> TRUE, isNull |-> TRUE, messages |-> JsUndefined] }
    \cup { [json |-> TRUE, isNull |-> FALSE, messages |-> m] :
             m \in {JsUndefined, JsNull, JsString, JsObject,
                    JsArray(<<>>), JsArray(<<UserMsg>>)} }

NoBody == [json |-> FALSE, isNull |-> FALSE, messages |-> JsUndefined]

\* body.messages ?? []
Coalesce(v, dflt) == IF v.t \in {"undefined", "null"} THEN dflt ELSE v

IsArray(v) == v.t = "array"

InvalidMessagesNoEmptyCheck(messages) == ~IsArray(messages)

\* !Array.isArray(messages) || messages.length === 0
InvalidMessages(messages) == ~IsArray(messages) \/ Len(messages.arr) = 0

FalsyOnlyUndefined(s) == s = Absent

\* !apiKey
Falsy(s) == s = Absent \/ s = ""

-----------------------------------------------------------------------------
(* The upstream model listing *)

Descriptor(name, methods) ==
    [hasName |-> TRUE, name |-> name, hasMethods |-> TRUE, methods |-> methods]

Payloads ==
    { [hasModels |-> FALSE, models |-> <<>>],
      [hasModels |-> TRUE, models |-> <<>>],
      [hasModels |-> TRUE, models |->
          << Descriptor(<<"models/", "embedding-001">>, {"embedContent"}),
             [hasName |-> FALSE, name |-> <<>>, hasMethods |-> TRUE,
              methods |-> {"generateContent"}],
             [hasName |-> TRUE, name |-> <<"models/", "aqa">>, hasMethods |-> FALSE,
              methods |-> {}] >>],
      [hasModels |-> TRUE, models |->
          << Descriptor(<<"models/", "gemini-pro">>, {"generateContent"}) >>],
      [hasModels |-> TRUE, models |->
          << Descriptor(<<"models/", "gemini-2.0-flash">>, {"generateContent", "countTokens"}),
             Descriptor(<<"models/", "text-", "embedding", "-004">>, {"generateContent"}),
             Descriptor(<<"models/", "gemini-1.5-flash-latest">>, {"generateContent"}) >>] }

Includes(list, x) == \E k \in DOMAIN list : list[k] = x

\* name.replace("models/", ""): the first occurrence only
ReplaceFirst(name, tok) ==
    LET at == {k \in DOMAIN name : name[k] = tok} IN
    IF at = {} THEN name
    ELSE LET k == CHOOSE k \in at : \A j \in at : k <= j IN
         SubSeq(name, 1, k - 1) \o SubSeq(name, k + 1, Len(name))

RECURSIVE MapNames(_)
MapNames(models) ==
    IF models = <<>> THEN <<>>
    ELSE LET m == Head(models)
             n == IF m.hasName THEN ReplaceFirst(m.name, "models/") ELSE <<>>
         IN  (IF m.hasName /\ n # <<>> THEN <<n>> ELSE <<>>) \o MapNames(Tail(models))

ModelIds(payload) ==
    IF ~payload.hasModels THEN <<>>
    ELSE LET Generates(m) == m.hasMethods /\ "generateContent" \in m.methods
         IN  MapNames(SelectSeq(payload.models, Generates))

OrderModelsListingOrder(modelIds) ==
    LET Rest(name) == ~Includes(name, "embedding") IN SelectSeq(modelIds, Rest)

OrderModels(modelIds) ==
    LET Listed(name) == Includes(modelIds, name)
        ordered == SelectSeq(PREFERRED_MODEL_ORDER, Listed)
        Rest(name) == ~Includes(ordered, name) /\ ~Includes(name, "embedding")
        remaining == SelectSeq(modelIds, Rest)
    IN  ordered \o remaining

CacheFreshFlipped(now) ==
    Len(cachedModels) > 0 /\ now - lastModelFetchTime > CACHE_DURATION_MS

CacheFreshAnyLength(now) ==
    now - lastModelFetchTime < CACHE_DURATION_MS

CacheFresh(now) ==
    Len(cachedModels) > 0 /\ now - lastModelFetchTime < CACHE_DURATION_MS

-----------------------------------------------------------------------------
(* The transcript sent upstream *)

IsSpace(c) == c \in {9, 10, 13, 32}

\* String.prototype.trim
RECURSIVE TrimStart(_)
TrimStart(t) == IF t # <<>> /\ IsSpace(Head(t)) THEN TrimStart(Tail(t)) ELSE t

RECURSIVE TrimEnd(_)
TrimEnd(t) ==
    IF t # <<>> /\ IsSpace(t[Len(t)]) THEN TrimEnd(SubSeq(t, 1, Len(t) - 1)) ELSE t

Trim(t) == TrimEnd(TrimStart(t))

TextPart(text) == [kind |-> "text", text |-> text, mimeType |-> "", data |-> ""]

InlineDataPart(image) ==
    [kind |-> "inlineData", text |-> <<>>, mimeType |-> image.mimeType, data |-> image.data]

KeptTextOnly(message) == Len(Trim(message.content)) > 0

\* message.content.trim().length > 0 || Boolean(message.image)
Kept(message) == Len(Trim(message.content)) > 0 \/ message.image.present

Turn(message) ==
    [role |-> IF message.role = "assistant" THEN "model" ELSE "user",
     parts |-> (IF Len(Trim(message.content)) > 0 THEN <<TextPart(message.content)>> ELSE <<>>)
               \o (IF message.image.present THEN <<InlineDataPart(message.image)>> ELSE <<>>)]

RECURSIVE MapTurns(_)
MapTurns(messages) ==
    IF messages = <<>> THEN <<>> ELSE <<Turn(Head(messages))>> \o MapTurns(Tail(messages))

BuildGeminiContents(messages) == MapTurns(SelectSeq(messages, Kept))

-----------------------------------------------------------------------------
(* The response stream (ReadableStream and its controller) *)

NoStream ==
    [state |-> "none", queue |-> <<>>, closeRequested |-> FALSE,
     upstream |-> "none", model |-> <<>>, produced |-> <<>>, delivered |-> <<>>]

NewStream(modelName) ==
    [state |-> "readable", queue |-> <<>>, closeRequested |-> FALSE,
     upstream |-> "live", model |-> modelName, produced |-> <<>>, delivered |-> <<>>]

CanCloseOrEnqueue(s) == s.state = "readable" /\ ~s.closeRequested

\* encoder.encode(text): UTF-8
Utf8(cp) == IF cp < 128 THEN <<cp>> ELSE <<192 + (cp \div 64), 128 + (cp % 64)>>

RECURSIVE Encode(_)
Encode(text) == IF text = <<>> THEN <<>> ELSE Utf8(Head(text)) \o Encode(Tail(text))

ControllerEnqueueKeepsOne(s, chunk) ==
    IF CanCloseOrEnqueue(s) THEN [s EXCEPT !.queue = <<chunk>>] ELSE s

ControllerEnqueue(s, chunk) ==
    IF CanCloseOrEnqueue(s) THEN [s EXCEPT !.queue = Append(@, chunk)] ELSE s

ControllerErrorMissing(s) == s

ControllerError(s) ==
    IF s.state = "readable" THEN [s EXCEPT !.state = "errored", !.queue = <<>>] ELSE s

\* close() throws when the stream is no longer readable; the throw leaves
\* the stream as it is.
ControllerClose(s) ==
    IF ~CanCloseOrEnqueue(s) THEN s
    ELSE [s EXCEPT !.closeRequested = TRUE,
                   !.state = IF s.queue = <<>> THEN "closed" ELSE "readable"]

ChunkTexts == { <<>>, <<97>>, <<233>> }

-----------------------------------------------------------------------------
(* The POST handler *)

\* no listing has been received
NoPayload == [hasModels |-> FALSE, models |-> <<>>]

IdleReq ==
    [pc |-> "idle", body |-> NoBody, status |-> 0, error |-> "", now |-> 0,
     hit |-> FALSE, listCalls |-> 0, listed |-> "no", candidates |-> <<>>, i |-> 0, log |-> <<>>,
     startVer |-> 0, writeVer |-> 0, payload |-> NoPayload, contents |-> <<>>,
     stream |-> NoStream]

Respond(q, status, error) == [q EXCEPT !.pc = "done", !.status = status, !.error = error]

\* const modelCandidates = await getAvailableModels(apiKey), then the check
\* of an empty list and the entry of the for loop
ResolvedNoEmptyCheck(q, list) ==
    [q EXCEPT !.candidates = list, !.pc = "loop", !.i = 1]

Resolved(q, list) ==
    LET q1 == [q EXCEPT !.candidates = list] IN
    IF Len(list) = 0 THEN Respond(q1, 500, MsgNoModels)
    ELSE [q1 EXCEPT !.pc = "loop", !.i = 1]

\* upstream chunks produced so far, over all requests
RECURSIVE ProducedUpTo(_)
ProducedUpTo(n) ==
    IF n = 0 THEN 0 ELSE Len(req[n].stream.produced) + ProducedUpTo(n - 1)

Post(r, body) ==
    /\ req[r].pc = "idle"
    /\ \A p \in 1..(r - 1) : req[p].pc # "idle"
    /\ LET q == [req[r] EXCEPT !.body = body] IN
       req' = [req EXCEPT ![r] =
          IF Falsy(apiKey) THEN Respond(q, 500, MsgMissingKey)
          ELSE IF ~body.json \/ body.isNull THEN Respond(q, 400, MsgInvalidBody)
          ELSE LET messages == Coalesce(body.messages, JsArray(<<>>)) IN
               IF InvalidMessages(messages)
               THEN Respond(q, 400, MsgInvalidMessages)
               ELSE LET q1 == [q EXCEPT !.now = clock, !.startVer = cacheVersion] IN
                    IF CacheFresh(clock)
                    THEN Resolved([q1 EXCEPT !.hit = TRUE], cachedModels)
                    ELSE [q1 EXCEPT !.pc = "listing", !.listCalls = @ + 1]]
    /\ UNCHANGED <<apiKey, clock, cachedModels, lastModelFetchTime, cacheVersion, clientVars>>

\* fetch rejects, the status is not 2xx, or response.json() rejects: the
\* error leaves getAvailableModels and lands in POST's catch
ListingFails(r) ==
    /\ req[r].pc = "listing"
    /\ req' = [req EXCEPT ![r] = Respond([@ EXCEPT !.listed = "failed"], 400, MsgInvalidBody)]
    /\ UNCHANGED <<apiKey, clock, cachedModels, lastModelFetchTime, cacheVersion, clientVars>>

ListingSucceedsStampsAtWrite(r, payload) ==
    /\ req[r].pc = "listing"
    /\ LET allAvailableModels == OrderModels(ModelIds(payload)) IN
       /\ cachedModels' = allAvailableModels
       /\ lastModelFetchTime' = clock
       /\ cacheVersion' = cacheVersion + 1
       /\ req' = [req EXCEPT ![r] =
                    Resolved([@ EXCEPT !.writeVer = cacheVersion + 1, !.listed = "ok",
                                       !.payload = payload],
                             allAvailableModels)]
    /\ UNCHANGED <<apiKey, clock, clientVars>>

ListingSucceedsListOnly(r, payload) ==
    /\ req[r].pc = "listing"
    /\ LET allAvailableModels == OrderModels(ModelIds(payload)) IN
       /\ cachedModels' = allAvailableModels
       /\ cacheVersion' = cacheVersion + 1
       /\ req' = [req EXCEPT ![r] =
                    Resolved([@ EXCEPT !.writeVer = cacheVersion + 1, !.listed = "ok",
                                       !.payload = payload],
                             allAvailableModels)]
    /\ UNCHANGED <<apiKey, clock, lastModelFetchTime, clientVars>>

ListingSucceeds(r, payload) ==
    /\ req[r].pc = "listing"
    /\ LET allAvailableModels == OrderModels(ModelIds(payload)) IN
       /\ cachedModels' = allAvailableModels
       /\ lastModelFetchTime' = req[r].now
       /\ cacheVersion' = cacheVersion + 1
       /\ req' = [req EXCEPT ![r] =
                    Resolved([@ EXCEPT !.writeVer = cacheVersion + 1, !.listed = "ok",
                                       !.payload = payload],
                             allAvailableModels)]
    /\ UNCHANGED <<apiKey, clock, clientVars>>

AttemptOpenReadsCache(r) ==
    /\ req[r].pc = "loop"
    /\ req[r].i <= Len(req[r].candidates)
    /\ LET modelName == IF req[r].i <= Len(cachedModels) THEN cachedModels[req[r].i]
                        ELSE req[r].candidates[req[r].i]
       IN  req' = [req EXCEPT ![r].pc = "opening",
                      ![r].contents = BuildGeminiContents(req[r].body.messages.arr),
                      ![r].log = Append(@, <<"open", modelName>>)]
    /\ UNCHANGED <<apiKey, clock, cachedModels, lastModelFetchTime, cacheVersion, clientVars>>

\* createStreamResponse up to its await of generateContentStream
AttemptOpen(r) ==
    /\ req[r].pc = "loop"
    /\ req[r].i <= Len(req[r].candidates)
    /\ req' = [req EXCEPT ![r].pc = "opening",
                          ![r].contents = BuildGeminiContents(req[r].body.messages.arr),
                          ![r].log = Append(@, <<"open", req[r].candidates[req[r].i]>>)]
    /\ UNCHANGED <<apiKey, clock, cachedModels, lastModelFetchTime, cacheVersion, clientVars>>

OpenFailsSameCandidate(r) ==
    /\ req[r].pc = "opening"
    /\ req' = [req EXCEPT ![r].pc = "loop",
                          ![r].log = Append(@, <<"failed", req[r].candidates[req[r].i]>>)]
    /\ UNCHANGED <<apiKey, clock, cachedModels, lastModelFetchTime, cacheVersion, clientVars>>

OpenFails(r) ==
    /\ req[r].pc = "opening"
    /\ req' = [req EXCEPT ![r].pc = "loop",
                          ![r].i = @ + 1,
                          ![r].log = Append(@, <<"failed", req[r].candidates[req[r].i]>>)]
    /\ UNCHANGED <<apiKey, clock, cachedModels, lastModelFetchTime, cacheVersion, clientVars>>

OpenSucceeds(r) ==
    /\ req[r].pc = "opening"
    /\ req' = [req EXCEPT ![r].pc = "streaming",
                          ![r].status = 200,
                          ![r].stream = NewStream(req[r].candidates[req[r].i]),
                          ![r].log = Append(@, <<"opened", req[r].candidates[req[r].i]>>)]
    /\ UNCHANGED <<apiKey, clock, cachedModels, lastModelFetchTime, cacheVersion, clientVars>>

AllFailedAs500(r) ==
    /\ req[r].pc = "loop"
    /\ req[r].i > Len(req[r].candidates)
    /\ req' = [req EXCEPT ![r] = Respond(@, 500, MsgUnavailable)]
    /\ UNCHANGED <<apiKey, clock, cachedModels, lastModelFetchTime, cacheVersion, clientVars>>

AllFailed(r) ==
    /\ req[r].pc = "loop"
    /\ req[r].i > Len(req[r].candidates)
    /\ req' = [req EXCEPT ![r] = Respond(@, 503, MsgUnavailable)]
    /\ UNCHANGED <<apiKey, clock, cachedModels, lastModelFetchTime, cacheVersion, clientVars>>

\* for await (const chunk of result.stream): one chunk
UpstreamChunk(r, text) ==
    /\ req[r].pc = "streaming"
    /\ req[r].stream.upstream = "live"
    /\ ProducedUpTo(MaxRequests) < MaxChunks
    /\ LET s == [req[r].stream EXCEPT !.produced = Append(@, text)] IN
       req' = [req EXCEPT ![r].stream =
                 IF text # <<>> THEN ControllerEnqueue(s, Encode(text)) ELSE s]
    /\ UNCHANGED <<apiKey, clock, cachedModels, lastModelFetchTime, cacheVersion, clientVars>>

\* the upstream iterator ends: finally { controller.close() }
UpstreamEnds(r) ==
    /\ req[r].pc = "streaming"
    /\ req[r].stream.upstream = "live"
    /\ req' = [req EXCEPT ![r].stream =
                 ControllerClose([@ EXCEPT !.upstream = "ended"])]
    /\ UNCHANGED <<apiKey, clock, cachedModels, lastModelFetchTime, cacheVersion, clientVars>>

\* the upstream iterator (or chunk.text()) throws: catch { controller.error }
\* and then finally { controller.close() }
UpstreamFails(r) ==
    /\ req[r].pc = "streaming"
    /\ req[r].stream.upstream = "live"
    /\ req' = [req EXCEPT ![r].stream =
                 ControllerClose(ControllerError([@ EXCEPT !.upstream = "failed"]))]
    /\ UNCHANGED <<apiKey, clock, cachedModels, lastModelFetchTime, cacheVersion, clientVars>>

\* the caller reads one chunk of the response body
CallerReads(r) ==
    /\ req[r].stream.state = "readable"
    /\ req[r].stream.queue # <<>>
    /\ LET s == req[r].stream IN
       req' = [req EXCEPT ![r].stream =
                 [s EXCEPT !.queue = Tail(@),
                           !.delivered = Append(@, Head(s.queue)),
                           !.state = IF s.closeRequested /\ Len(s.queue) = 1
                                     THEN "closed" ELSE "readable"]]
    /\ UNCHANGED <<apiKey, clock, cachedModels, lastModelFetchTime, cacheVersion, clientVars>>

Tick(d) ==
    /\ clock + d <= MaxTicks * (CACHE_DURATION_MS \div 2)
    /\ clock' = clock + d
    /\ UNCHANGED <<apiKey, cachedModels, lastModelFetchTime, cacheVersion, req, clientVars>>

GatewayInit ==
    /\ apiKey \in ApiKeys
    /\ clock = 0
    /\ cachedModels = <<>>
    /\ lastModelFetchTime = 0
    /\ cacheVersion = 0
    /\ req = [r \in Reqs |-> IdleReq]

GatewayNext ==
    \/ \E d \in TickSteps : Tick(d)
    \/ \E r \in Reqs, body \in Bodies : Post(r, body)
    \/ \E r \in Reqs : ListingFails(r)
    \/ \E r \in Reqs, payload \in Payloads : ListingSucceeds(r, payload)
    \/ \E r \in Reqs : AttemptOpen(r)
    \/ \E r \in Reqs : OpenFails(r)
    \/ \E r \in Reqs : OpenSucceeds(r)
    \/ \E r \in Reqs : AllFailed(r)
    \/ \E r \in Reqs, text \in ChunkTexts : UpstreamChunk(r, text)
    \/ \E r \in Reqs : UpstreamEnds(r)
    \/ \E r \in Reqs : UpstreamFails(r)
    \/ \E r \in Reqs : CallerReads(r)


\* the messages of a transcript: any role, a content that is empty, blank,
\* trimmed or not, an image or none
TranscriptMessages ==
    { [role |-> role, content |-> content, image |-> image] :
        role \in {"user", "assistant", "system"},
        content \in { <<>>, <<32>>, <<104, 105>>, <<32, 104, 105, 10>> },
        image \in {NoImage, Png} }

Transcripts ==
    UNION { [1..n -> TranscriptMessages] : n \in 1..MaxMessages }

-----------------------------------------------------------------------------
(* The transcript reducer (ChatApp) *)

\* an image whose file name is "screenshot-2024-05-17-at-10.42.31-error-log.png"
PngLongName ==
    [present |-> TRUE, mimeType |-> "image/png", data |-> "iVBORw0KGgo=",
     name |->
        <<115, 99, 114, 101, 101, 110, 115, 104, 111, 116, 45, 50, 48, 50, 52, 45, 48,
          53, 45, 49, 55, 45, 97, 116, 45, 49, 48, 46, 52, 50, 46, 51, 49, 45, 101, 114,
          114, 111, 114, 45, 108, 111, 103, 46, 112, 110, 103>>]

\* the files the user picks
Images == {Png, PngLongName}

TitleNewChat == <<78, 101, 119, 32, 67, 104, 97, 116>>

TitleImagePrefix == <<73, 109, 97, 103, 101, 58, 32>>

FallbackNotOk == 
    <<70, 97, 105, 108, 101, 100, 32, 116, 111, 32, 115, 116, 114, 101, 97, 109, 32, 114, 101, 115, 112, 111, 110, 115, 101, 32, 102, 114, 111, 109, 32, 65, 80, 73, 46>>

FallbackThrown == 
    <<83, 111, 109, 101, 116, 104, 105, 110, 103, 32, 119, 101, 110, 116, 32, 119, 114, 111, 110, 103, 32, 119, 104, 105, 108, 101, 32, 103, 101, 110, 101, 114, 97, 116, 105, 110, 103, 32, 97, 32, 114, 101, 115, 112, 111, 110, 115, 101, 46>>

\* String.prototype.slice(0, n)
Slice(t, n) == SubSeq(t, 1, IF Len(t) < n THEN Len(t) ELSE n)

TITLE_MAX == 50

\* "  fix my bug please with a very long description exceeding fifty
\* characters total": 79 characters after trim()
DraftLong ==
    <<32, 32, 102, 105, 120, 32, 109, 121, 32, 98, 117, 103, 32, 112, 108, 101, 97, 115,
      101, 32, 119, 105, 116, 104, 32, 97, 32, 118, 101, 114, 121, 32, 108, 111, 110,
      103, 32, 100, 101, 115, 99, 114, 105, 112, 116, 105, 111, 110, 32, 101, 120, 99,
      101, 101, 100, 105, 110, 103, 32, 102, 105, 102, 116, 121, 32, 99, 104, 97, 114,
      97, 99, 116, 101, 114, 115, 32, 116, 111, 116, 97, 108>>

\* the drafts the user types: nothing, or a text with blanks around it
Drafts == { <<>>, <<32, 111, 107, 10>> }

\* the same, and a text longer than a title
TitleDrafts == Drafts \cup {DraftLong}

\* crypto-style unique ids: the n-th call returns n
CreateId(n) == n + 1

CreateEmptyChat(id) == [id |-> id, title |-> TitleNewChat, messages |-> <<>>]

DeriveTitleNoSlice(messages) ==
    LET users == {k \in DOMAIN messages : messages[k].role = "user"} IN
    IF users = {} THEN TitleNewChat
    ELSE LET firstUserMessage == messages[CHOOSE k \in users : \A j \in users : k <= j]
             firstText == Trim(firstUserMessage.content)
         IN  IF firstText # <<>> THEN firstText
             ELSE IF firstUserMessage.image.present
                  THEN TitleImagePrefix \o firstUserMessage.image.name
                  ELSE TitleNewChat

DeriveTitle(messages) ==
    LET users == {k \in DOMAIN messages : messages[k].role = "user"} IN
    IF users = {} THEN TitleNewChat
    ELSE LET firstUserMessage == messages[CHOOSE k \in users : \A j \in users : k <= j]
             firstText == Trim(firstUserMessage.content)
         IN  IF firstText # <<>> THEN Slice(firstText, TITLE_MAX)
             ELSE IF firstUserMessage.image.present
                  THEN TitleImagePrefix \o firstUserMessage.image.name
                  ELSE TitleNewChat

\* chats.find((chat) => chat.id === activeChatId) ?? chats[0]
HasActiveChat == chats # <<>>

ActiveChat ==
    LET found == {k \in DOMAIN chats : chats[k].id = activeChatId} IN
    IF found # {} THEN chats[CHOOSE k \in found : \A j \in found : k <= j] ELSE chats[1]

\* setChats((current) => current.map((chat) => chat.id === chatId ? updater(chat) : chat))
\* updated[k] is updater(current[k])
UpsertChatReorders(current, chatId, updated) ==
    LET mapped == [k \in DOMAIN current |->
                      IF current[k].id = chatId THEN updated[k] ELSE current[k]]
        IsHit(chat) == chat.id = chatId
        IsMiss(chat) == chat.id # chatId
    IN  SelectSeq(mapped, IsHit) \o SelectSeq(mapped, IsMiss)

UpsertChat(current, chatId, updated) ==
    [k \in DOMAIN current |-> IF current[k].id = chatId THEN updated[k] ELSE current[k]]

SetContentKeepsOnlyPlaceholder(chat, messageId, content) ==
    LET IsPlaceholder(message) == message.id = messageId
        Set(message) == [message EXCEPT !.content = content]
        kept == SelectSeq(chat.messages, IsPlaceholder)
    IN  [chat EXCEPT !.messages = [k \in DOMAIN kept |-> Set(kept[k])]]

\* the updater of a chunk or of a failure: the placeholder's content
SetContent(chat, messageId, content) ==
    [chat EXCEPT !.messages =
        [k \in DOMAIN chat.messages |->
            IF chat.messages[k].id = messageId
            THEN [chat.messages[k] EXCEPT !.content = content]
            ELSE chat.messages[k]]]

\* TextDecoder.decode(bytes, {stream: true}) for UTF-8 sequences of one and
\* two bytes: `pending` is the lead byte kept from the previous chunk.
IsLead(b) == b \in 194..223
IsContinuation(b) == b \in 128..191
Replacement == 65533

RECURSIVE DecodeStream(_, _)
DecodeStream(pending, bytes) ==
    IF bytes = <<>> THEN [text |-> <<>>, pending |-> pending]
    ELSE LET b == Head(bytes) IN
         IF pending # <<>> /\ IsContinuation(b)
         THEN LET rest == DecodeStream(<<>>, Tail(bytes)) IN
              [rest EXCEPT !.text = <<(pending[1] - 192) * 64 + (b - 128)>> \o @]
         ELSE IF pending # <<>>
         THEN LET rest == DecodeStream(<<>>, bytes) IN
              [rest EXCEPT !.text = <<Replacement>> \o @]
         ELSE IF b < 128
         THEN LET rest == DecodeStream(<<>>, Tail(bytes)) IN
              [rest EXCEPT !.text = <<b>> \o @]
         ELSE IF IsLead(b) THEN DecodeStream(<<b>>, Tail(bytes))
         ELSE LET rest == DecodeStream(<<>>, Tail(bytes)) IN
              [rest EXCEPT !.text = <<Replacement>> \o @]

\* the chunks the transport can deliver: it may cut the body anywhere, so
\* the two bytes of U+00E9 may come in two chunks
NetChunks == { <<97>>, <<195>>, <<169>> }

Message(id, role, content, image) ==
    [id |-> id, role |-> role, content |-> content, image |-> image]

\* createEmptyChat() calls so far: each accepted sendMessage took two ids
ChatsCreated == nextId - 2 * Len(subs)

\* useEffect(() => { ... }, []): the first chat
Mount ==
    /\ chats = <<>> /\ activeChatId = 0 /\ nextId = 0
    /\ chats' = <<CreateEmptyChat(CreateId(nextId))>>
    /\ activeChatId' = CreateId(nextId)
    /\ nextId' = nextId + 1
    /\ UNCHANGED <<input, inputImage, isStreaming, errorMessage, subs, refused, gatewayVars>>

StartNewChat ==
    /\ ChatsCreated < MaxChats
    /\ chats' = <<CreateEmptyChat(CreateId(nextId))>> \o chats
    /\ activeChatId' = CreateId(nextId)
    /\ nextId' = nextId + 1
    /\ input' = <<>>
    /\ inputImage' = NoImage
    /\ errorMessage' = <<>>
    /\ UNCHANGED <<isStreaming, subs, refused, gatewayVars>>

ClearAllChatsKeepsActive ==
    /\ ChatsCreated < MaxChats
    /\ chats' = <<CreateEmptyChat(CreateId(nextId))>>
    /\ nextId' = nextId + 1
    /\ input' = <<>>
    /\ inputImage' = NoImage
    /\ errorMessage' = <<>>
    /\ UNCHANGED <<activeChatId, isStreaming, subs, refused, gatewayVars>>

ClearAllChats ==
    /\ ChatsCreated < MaxChats
    /\ chats' = <<CreateEmptyChat(CreateId(nextId))>>
    /\ activeChatId' = CreateId(nextId)
    /\ nextId' = nextId + 1
    /\ input' = <<>>
    /\ inputImage' = NoImage
    /\ errorMessage' = <<>>
    /\ UNCHANGED <<isStreaming, subs, refused, gatewayVars>>

\* onSelectChat: a click on one of the chats the sidebar lists
SelectChat(chatId) ==
    /\ \E k \in DOMAIN chats : chats[k].id = chatId
    /\ activeChatId' = chatId
    /\ UNCHANGED <<chats, input, inputImage, isStreaming, errorMessage, nextId, subs, refused,
                   gatewayVars>>

\* onChange={setInput}; the textarea is disabled while isStreaming
SetInput(text) ==
    /\ ~isStreaming
    /\ input' = text
    /\ UNCHANGED <<chats, activeChatId, inputImage, isStreaming, errorMessage, nextId, subs, refused,
                   gatewayVars>>

\* onImageSelect with a file it accepts: the FileReader settles with data.
\* Reads are started while the input is enabled, any number of them, and
\* settle at any later time, also while isStreaming. (A file it refuses, or
\* a read that fails, only sets errorMessage to a text of its own.)
ImageRead(image) ==
    /\ inputImage' = image
    /\ errorMessage' = <<>>
    /\ UNCHANGED <<chats, activeChatId, input, isStreaming, nextId, subs, refused,
                   gatewayVars>>

\* onRemoveImage={() => setInputImage(null)}; the button is disabled while
\* isStreaming and shown only when there is an image
RemoveImage ==
    /\ ~isStreaming
    /\ inputImage.present
    /\ inputImage' = NoImage
    /\ UNCHANGED <<chats, activeChatId, input, isStreaming, errorMessage, nextId, subs, refused,
                   gatewayVars>>

\* nothing to send: !text && !inputImage
DraftEmpty == Trim(input) = <<>> /\ ~inputImage.present

GatedNoStreamingCheck == DraftEmpty \/ ~HasActiveChat

\* the guard of sendMessage
Gated == DraftEmpty \/ isStreaming \/ ~HasActiveChat

\* sendMessage, up to its await of fetch
SendMessage ==
    /\ Gated \/ Len(subs) < MaxSubmits
    /\ refused' = (isStreaming /\ (refused \/ (Gated /\ ~DraftEmpty)))
    /\ IF Gated
       THEN UNCHANGED <<chats, activeChatId, input, inputImage, isStreaming,
                        errorMessage, nextId, subs, gatewayVars>>
       ELSE LET text == Trim(input)
                userMessage == Message(CreateId(nextId), "user", text, inputImage)
                assistantMessage == Message(CreateId(nextId + 1), "assistant", <<>>, NoImage)
                nextMessages == ActiveChat.messages \o <<userMessage, assistantMessage>>
                Updater(chat) ==
                    [chat EXCEPT !.messages = nextMessages,
                                 !.title = DeriveTitle(nextMessages)]
            IN  /\ errorMessage' = <<>>
                /\ input' = <<>>
                /\ inputImage' = NoImage
                /\ isStreaming' = TRUE
                /\ nextId' = nextId + 2
                /\ chats' = UpsertChat(chats, ActiveChat.id, [k \in DOMAIN chats |-> Updater(chats[k])])
                /\ subs' = Append(subs,
                       [pc |-> "fetching", chatId |-> ActiveChat.id,
                        assistantId |-> assistantMessage.id,
                        sent |-> [k \in DOMAIN nextMessages |->
                                    [role |-> nextMessages[k].role,
                                     content |-> nextMessages[k].content,
                                     image |-> nextMessages[k].image]],
                        fullAssistantText |-> <<>>, pending |-> <<>>, reads |-> 0,
                        received |-> <<>>, failure |-> <<>>])
                /\ UNCHANGED <<activeChatId, gatewayVars>>

FailKeepsStreaming(s, fallback) ==
    LET Updater(chat) == SetContent(chat, subs[s].assistantId, fallback) IN
    /\ errorMessage' = fallback
    /\ chats' = UpsertChat(chats, subs[s].chatId, [k \in DOMAIN chats |-> Updater(chats[k])])
    /\ subs' = [subs EXCEPT ![s].pc = "done", ![s].failure = fallback]
    /\ refused' = FALSE
    /\ UNCHANGED <<activeChatId, input, inputImage, isStreaming, nextId, gatewayVars>>

FailNoBanner(s, fallback) ==
    LET Updater(chat) == SetContent(chat, subs[s].assistantId, fallback) IN
    /\ chats' = UpsertChat(chats, subs[s].chatId, [k \in DOMAIN chats |-> Updater(chats[k])])
    /\ isStreaming' = FALSE
    /\ subs' = [subs EXCEPT ![s].pc = "done", ![s].failure = fallback]
    /\ refused' = FALSE
    /\ UNCHANGED <<activeChatId, input, inputImage, errorMessage, nextId, gatewayVars>>

FailOnActiveChat(s, fallback) ==
    LET Updater(chat) == SetContent(chat, subs[s].assistantId, fallback) IN
    /\ errorMessage' = fallback
    /\ chats' = IF HasActiveChat
                THEN UpsertChat(chats, ActiveChat.id, [k \in DOMAIN chats |-> Updater(chats[k])])
                ELSE chats
    /\ isStreaming' = FALSE
    /\ subs' = [subs EXCEPT ![s].pc = "done", ![s].failure = fallback]
    /\ refused' = FALSE
    /\ UNCHANGED <<activeChatId, input, inputImage, nextId, gatewayVars>>

\* the failure branches: the banner, the placeholder, and the finally block
Fail(s, fallback) ==
    LET Updater(chat) == SetContent(chat, subs[s].assistantId, fallback) IN
    /\ errorMessage' = fallback
    /\ chats' = UpsertChat(chats, subs[s].chatId, [k \in DOMAIN chats |-> Updater(chats[k])])
    /\ isStreaming' = FALSE
    /\ subs' = [subs EXCEPT ![s].pc = "done", ![s].failure = fallback]
    /\ refused' = FALSE
    /\ UNCHANGED <<activeChatId, input, inputImage, nextId, gatewayVars>>

\* fetch resolves with !response.ok || !response.body
FetchNotOk(s) ==
    /\ subs[s].pc = "fetching"
    /\ Fail(s, FallbackNotOk)

\* fetch rejects
FetchThrows(s) ==
    /\ subs[s].pc = "fetching"
    /\ Fail(s, FallbackThrown)

\* fetch resolves with a 2xx response that has a body
FetchOk(s) ==
    /\ subs[s].pc = "fetching"
    /\ subs' = [subs EXCEPT ![s].pc = "reading"]
    /\ UNCHANGED <<chats, activeChatId, input, inputImage, isStreaming, errorMessage,
                   nextId, refused, gatewayVars>>

\* chunks read so far, over all submissions
RECURSIVE ReadsUpTo(_)
ReadsUpTo(n) == IF n = 0 THEN 0 ELSE subs[n].reads + ReadsUpTo(n - 1)

ReadChunkNoCarry(s, bytes) ==
    /\ subs[s].pc = "reading"
    /\ ReadsUpTo(Len(subs)) < MaxReads
    /\ LET d == DecodeStream(<<>>, bytes)
           fullAssistantText == subs[s].fullAssistantText \o d.text
           Updater(chat) == SetContent(chat, subs[s].assistantId, fullAssistantText)
       IN  /\ subs' = [subs EXCEPT ![s].fullAssistantText = fullAssistantText,
                                   ![s].reads = @ + 1,
                                   ![s].received = @ \o bytes]
           /\ chats' = UpsertChat(chats, subs[s].chatId, [k \in DOMAIN chats |-> Updater(chats[k])])
    /\ UNCHANGED <<activeChatId, input, inputImage, isStreaming, errorMessage, nextId, refused,
                   gatewayVars>>

\* reader.read() resolves with {done: false, value: bytes}
ReadChunk(s, bytes) ==
    /\ subs[s].pc = "reading"
    /\ ReadsUpTo(Len(subs)) < MaxReads
    /\ LET d == DecodeStream(subs[s].pending, bytes)
           fullAssistantText == subs[s].fullAssistantText \o d.text
           Updater(chat) == SetContent(chat, subs[s].assistantId, fullAssistantText)
       IN  /\ subs' = [subs EXCEPT ![s].fullAssistantText = fullAssistantText,
                                   ![s].pending = d.pending,
                                   ![s].reads = @ + 1,
                                   ![s].received = @ \o bytes]
           /\ chats' = UpsertChat(chats, subs[s].chatId, [k \in DOMAIN chats |-> Updater(chats[k])])
    /\ UNCHANGED <<activeChatId, input, inputImage, isStreaming, errorMessage, nextId, refused,
                   gatewayVars>>

ReadDoneKeepsStreaming(s) ==
    /\ subs[s].pc = "reading"
    /\ subs' = [subs EXCEPT ![s].pc = "done"]
    /\ refused' = FALSE
    /\ UNCHANGED <<chats, activeChatId, input, inputImage, isStreaming, errorMessage, nextId,
                   gatewayVars>>

\* reader.read() resolves with {done: true}: the loop ends, then finally
ReadDone(s) ==
    /\ subs[s].pc = "reading"
    /\ subs' = [subs EXCEPT ![s].pc = "done"]
    /\ isStreaming' = FALSE
    /\ refused' = FALSE
    /\ UNCHANGED <<chats, activeChatId, input, inputImage, errorMessage, nextId, gatewayVars>>

\* reader.read() rejects
ReadThrows(s) ==
    /\ subs[s].pc = "reading"
    /\ Fail(s, FallbackThrown)

ClientInit ==
    /\ chats = <<>>
    /\ activeChatId = 0
    /\ input = <<>>
    /\ inputImage = NoImage
    /\ isStreaming = FALSE
    /\ errorMessage = <<>>
    /\ nextId = 0
    /\ subs = <<>>
    /\ refused = FALSE

ClientNext ==
    \/ Mount
    \/ StartNewChat
    \/ ClearAllChats
    \/ \E k \in DOMAIN chats : SelectChat(chats[k].id)
    \/ \E text \in Drafts : SetInput(text)
    \/ ImageRead(Png)
    \/ RemoveImage
    \/ SendMessage
    \/ \E s \in DOMAIN subs : FetchNotOk(s)
    \/ \E s \in DOMAIN subs : FetchThrows(s)
    \/ \E s \in DOMAIN subs : FetchOk(s)
    \/ \E s \in DOMAIN subs, bytes \in NetChunks : ReadChunk(s, bytes)
    \/ \E s \in DOMAIN subs : ReadDone(s)
    \/ \E s \in DOMAIN subs : ReadThrows(s)

\* the descriptors of a listing: two models of the preference list, two
\* other models, a model named as an embedding model that advertises
\* generateContent, and a model that does not advertise it
ListedDescriptors ==
    { Descriptor(<<"models/", "gemini-pro">>, {"generateContent"}),
      Descriptor(<<"models/", "gemini-1.5-pro-latest">>, {"generateContent", "countTokens"}),
      Descriptor(<<"models/", "gemini-2.0-flash">>, {"generateContent"}),
      Descriptor(<<"models/", "gemini-1.5-flash">>, {"generateContent"}),
      Descriptor(<<"models/", "text-", "embedding", "-004">>, {"generateContent"}),
      Descriptor(<<"models/", "embedding", "-001">>, {"embedContent"}) }

ListingPayloads ==
    { [hasModels |-> TRUE, models |-> models] :
        models \in UNION { [1..n -> ListedDescriptors] : n \in 0..MaxListed } }

\* a request with a valid body that found the cache empty and awaits the
\* answer of its listing call
ListingInit ==
    /\ apiKey = "AIza-key"
    /\ clock = 0
    /\ cachedModels = <<>>
    /\ lastModelFetchTime = 0
    /\ cacheVersion = 0
    /\ req = [r \in Reqs |->
                IF r = 1
                THEN [IdleReq EXCEPT
                        !.body = [json |-> TRUE, isNull |-> FALSE,
                                  messages |-> JsArray(<<UserMsg>>)],
                        !.pc = "listing", !.listCalls = 1]
                ELSE IdleReq]
    /\ ClientInit

\* the listing call settles, and the loop goes over what it resolved
ListingNext ==
    \/ \E r \in Reqs : ListingFails(r)
    \/ \E r \in Reqs, payload \in ListingPayloads : ListingSucceeds(r, payload)
    \/ \E r \in Reqs : AttemptOpen(r)
    \/ \E r \in Reqs : OpenFails(r)
    \/ \E r \in Reqs : OpenSucceeds(r)
    \/ \E r \in Reqs : AllFailed(r)

\* a request with any transcript, at the entry of the loop over the two
\* candidates that its listing call returned
TranscriptInit ==
    LET payload == CHOOSE p \in Payloads : Len(OrderModels(ModelIds(p))) = 2
        list == OrderModels(ModelIds(payload))
    IN  /\ apiKey = "AIza-key"
        /\ clock = 0
        /\ cachedModels = list
        /\ lastModelFetchTime = 0
        /\ cacheVersion = 1
        /\ \E t \in Transcripts :
              req = [r \in Reqs |->
                       IF r = 1
                       THEN [IdleReq EXCEPT
                               !.body = [json |-> TRUE, isNull |-> FALSE, messages |-> JsArray(t)],
                               !.pc = "loop", !.i = 1, !.candidates = list,
                               !.listCalls = 1, !.listed = "ok", !.writeVer = 1]
                       ELSE IdleReq]
        /\ ClientInit

\* the loop over the candidates
TranscriptNext ==
    \/ \E r \in Reqs : AttemptOpen(r)
    \/ \E r \in Reqs : OpenFails(r)
    \/ \E r \in Reqs : OpenSucceeds(r)
    \/ \E r \in Reqs : AllFailed(r)

\* the reducer with drafts and file names of any length; the response is
\* read in chunks of one character
TitleNext ==
    \/ Mount
    \/ StartNewChat
    \/ ClearAllChats
    \/ \E k \in DOMAIN chats : SelectChat(chats[k].id)
    \/ \E text \in TitleDrafts : SetInput(text)
    \/ \E image \in Images : ImageRead(image)
    \/ RemoveImage
    \/ SendMessage
    \/ \E s \in DOMAIN subs : FetchNotOk(s)
    \/ \E s \in DOMAIN subs : FetchThrows(s)
    \/ \E s \in DOMAIN subs : FetchOk(s)
    \/ \E s \in DOMAIN subs : ReadChunk(s, <<97>>)
    \/ \E s \in DOMAIN subs : ReadDone(s)
    \/ \E s \in DOMAIN subs : ReadThrows(s)

-----------------------------------------------------------------------------
(* Specifications *)

Init == GatewayInit /\ ClientInit

\* the gateway alone, with the reducer at rest
GatewaySpec == Init /\ [][GatewayNext]_vars

ClientStart == Init /\ apiKey = "AIza-key"

\* the resolution of the candidates from any listing
ListingSpec == ListingInit /\ [][ListingNext]_vars

\* the translation of the transcripts, in the loop over the candidates
TranscriptSpec == TranscriptInit /\ [][TranscriptNext]_vars

\* the reducer alone: the gateway is the outcomes of fetch and of read
ClientSpec == ClientStart /\ [][ClientNext]_vars

\* the reducer, for the titles
TitleSpec == ClientStart /\ [][TitleNext]_vars

\* the awaits of sendMessage settle: the promise of fetch resolves or
\* rejects, and so does each reader.read() of a body that is finite
FetchSettles == \E s \in DOMAIN subs : FetchNotOk(s) \/ FetchThrows(s) \/ FetchOk(s)

ReadSettles ==
    \E s \in DOMAIN subs :
        \/ \E bytes \in NetChunks : ReadChunk(s, bytes)
        \/ ReadDone(s)
        \/ ReadThrows(s)

ClientLiveSpec ==
    ClientStart /\ [][ClientNext]_vars /\ WF_vars(FetchSettles) /\ WF_vars(ReadSettles)

-----------------------------------------------------------------------------
(* Properties of the gateway *)

\* getAvailableModels has been entered by request r
ResolutionStarted(r) == req[r].hit \/ req[r].listCalls > 0

\* getAvailableModels has returned a list to request r
ResolutionReturned(r) == req[r].hit \/ req[r].listed = "ok"

OpensOf(r) == {k \in DOMAIN req[r].log : req[r].log[k][1] = "open"}

\* no listing call and no stream-open attempt
NoUpstreamCall(r) == req[r].listCalls = 0 /\ req[r].log = <<>>

\* C1 as stated: of any two resolution calls the second of which starts
\* less than CACHE_DURATION_MS after the first (read in the claim's favour:
\* the first fetched the listing and had returned when the second started),
\* the second makes no listing call and returns the list the first returned.
C1_AsStated ==
    \A a, b \in Reqs :
        (/\ req[a].listed = "ok"
         /\ ResolutionReturned(b)
         /\ req[b].startVer >= req[a].writeVer
         /\ req[b].now - req[a].now < CACHE_DURATION_MS)
        => (req[b].listCalls = 0 /\ req[b].candidates = req[a].candidates)

\* C1 amended: when the first call fetched the listing and cached a
\* non-empty list, and the second call starts less than CACHE_DURATION_MS
\* after the first started, while the cache still holds what the first
\* wrote, the second makes no listing call and returns the same list.
C1_CacheHitWithinTtl ==
    \A a, b \in Reqs :
        (/\ a # b
         /\ req[a].listed = "ok"
         /\ req[a].candidates # <<>>
         /\ ResolutionStarted(b)
         /\ req[b].startVer = req[a].writeVer
         /\ req[b].now - req[a].now < CACHE_DURATION_MS)
        => (/\ req[b].listCalls = 0
            /\ ResolutionReturned(b)
            /\ req[b].candidates = req[a].candidates)

C1_Witness ==
    \E a, b \in Reqs :
        /\ req[a].listed = "ok"
        /\ req[a].candidates # <<>>
        /\ req[b].hit
        /\ req[b].startVer = req[a].writeVer
        /\ req[b].now > req[a].now
        /\ req[b].candidates = req[a].candidates

\* the body is a JSON object whose `messages` is absent, no array, or empty
BadMessages(r) ==
    /\ req[r].pc # "idle"
    /\ req[r].body.json /\ ~req[r].body.isNull
    /\ req[r].body.messages \in {JsUndefined, JsNull, JsString, JsObject, JsArray(<<>>)}

\* C2 as stated: every request whose `messages` is empty, absent or no
\* sequence is answered 400 with no upstream call.
C2_AsStated ==
    \A r \in Reqs : BadMessages(r) => (req[r].status = 400 /\ NoUpstreamCall(r))

\* C2 amended: when the credential is configured, every request whose
\* `messages` is empty, absent or no sequence is answered 400 with no
\* upstream call.
C2_BadMessages400 ==
    \A r \in Reqs :
        (BadMessages(r) /\ apiKey \notin {Absent, ""})
        => (/\ req[r].pc = "done"
            /\ req[r].status = 400
            /\ req[r].error = MsgInvalidMessages
            /\ NoUpstreamCall(r))

C2_Witness ==
    /\ apiKey \notin {Absent, ""}
    /\ \E r \in Reqs : BadMessages(r) /\ req[r].body.messages = JsArray(<<>>)
                          /\ req[r].status = 400

\* C3: when a stream is returned after n open-attempts, the attempts are the
\* first n candidates in order, each settled before the next starts, the
\* first n-1 failed, the stream is candidate n's, and nothing is attempted
\* after it.
C3_FallbackOrder ==
    \A r \in Reqs :
        req[r].status = 200 =>
            LET n == Cardinality(OpensOf(r))
                c == req[r].candidates
                log == req[r].log
            IN  /\ n \in 1..Len(c)
                /\ Len(log) = 2 * n
                /\ \A k \in 1..n :
                      /\ log[2 * k - 1] = <<"open", c[k]>>
                      /\ log[2 * k] = <<IF k < n THEN "failed" ELSE "opened", c[k]>>
                /\ req[r].stream.model = c[n]

C3_Witness ==
    \E r \in Reqs :
        /\ req[r].status = 200
        /\ Cardinality(OpensOf(r)) = 2
        /\ req[r].stream.model = req[r].candidates[2]
        /\ req[r].stream.upstream = "ended"

\* every candidate of request r was attempted and failed to open
AllOpensFailed(r) ==
    /\ req[r].candidates # <<>>
    /\ Len(req[r].log) = 2 * Len(req[r].candidates)
    /\ \A k \in DOMAIN req[r].candidates :
          req[r].log[2 * k] = <<"failed", req[r].candidates[k]>>

\* C4: when every candidate failed to open, the answer is 503 and no stream
\* is returned.
C4_AllFailed503 ==
    \A r \in Reqs :
        (AllOpensFailed(r) /\ req[r].pc = "done")
        => (/\ req[r].status = 503
            /\ req[r].error = MsgUnavailable
            /\ req[r].stream = NoStream)

C4_Witness ==
    \E r \in Reqs :
        AllOpensFailed(r) /\ req[r].status = 503 /\ Len(req[r].candidates) = 2

\* C5 as stated: a failed listing call is answered 500, and the listing call
\* is made once.
C5_ListingFailure500 ==
    \A r \in Reqs :
        req[r].listed = "failed" => (req[r].status = 500 /\ req[r].listCalls = 1)

\* C6: when the credential is absent (undefined or empty), every request is
\* answered 500 with no upstream call, whatever its body.
C6_MissingKey500 ==
    apiKey \in {Absent, ""} =>
        \A r \in Reqs :
            req[r].pc # "idle" =>
                (/\ req[r].pc = "done"
                 /\ req[r].status = 500
                 /\ req[r].error = MsgMissingKey
                 /\ NoUpstreamCall(r))

C6_Witness ==
    /\ apiKey = Absent
    /\ \E r \in Reqs : req[r].status = 500 /\ req[r].body.messages = JsArray(<<UserMsg>>)
    /\ \E r \in Reqs : req[r].status = 500 /\ ~req[r].body.json

\* C7: when resolution returns an empty list, the answer is 500 and no stream
\* is opened.
C7_NoModels500 ==
    \A r \in Reqs :
        (ResolutionReturned(r) /\ req[r].candidates = <<>>)
        => (/\ req[r].pc = "done"
            /\ req[r].status = 500
            /\ req[r].error = MsgNoModels
            /\ req[r].log = <<>>)

C7_Witness ==
    \E r \in Reqs :
        req[r].listed = "ok" /\ req[r].candidates = <<>> /\ req[r].status = 500

\* C8: after an upstream failure in a stream already returned, no further
\* candidate is attempted and the output stream is errored, never closed.
C8_MidStreamError ==
    \A r \in Reqs :
        req[r].stream.upstream = "failed" =>
            /\ req[r].stream.state = "errored"
            /\ req[r].status = 200
            /\ req[r].pc = "streaming"
            /\ req[r].log[Len(req[r].log)][1] = "opened"
            /\ Cardinality(OpensOf(r)) = req[r].i

C8_Witness ==
    \E r \in Reqs :
        /\ req[r].stream.upstream = "failed"
        /\ req[r].stream.state = "errored"
        /\ req[r].stream.delivered # <<>>
        /\ req[r].i < Len(req[r].candidates)

\* C9 as stated: once a listing call has succeeded within the TTL window,
\* resolution does not return an empty list.
C9_AsStated ==
    \A r \in Reqs :
        (/\ ResolutionReturned(r)
         /\ \E a \in Reqs : /\ req[a].listed = "ok"
                             /\ req[r].now - req[a].now \in 0..(CACHE_DURATION_MS - 1))
        => req[r].candidates # <<>>

\* C9 amended: a call served from the cache never returns an empty list; a
\* call returns an empty list only when its own listing call succeeded and
\* listed no eligible model.
C9_EmptyOnlyFromOwnListing ==
    \A r \in Reqs :
        /\ req[r].hit => (req[r].candidates # <<>> /\ req[r].listCalls = 0)
        /\ (ResolutionReturned(r) /\ req[r].candidates = <<>>)
           => (req[r].listed = "ok" /\ req[r].listCalls = 1)

C9_Witness ==
    \E a, b \in Reqs :
        /\ req[a].listed = "ok" /\ req[a].candidates = <<>> /\ req[a].status = 500
        /\ req[b].startVer = req[a].writeVer
        /\ req[b].now - req[a].now < CACHE_DURATION_MS
        /\ req[b].listed = "ok" /\ req[b].listCalls = 1 /\ req[b].candidates # <<>>

\* the identifiers of the eligible models of a listing, in listing order:
\* the names, without their "models/", of the descriptors that advertise
\* generateContent
EligibleIds(payload) ==
    LET Eligible(j) == /\ payload.models[j].hasMethods
                       /\ "generateContent" \in payload.models[j].methods
                       /\ payload.models[j].hasName
        at == SelectSeq([j \in 1..Len(payload.models) |-> j], Eligible)
    IN  [k \in 1..Len(at) |-> Tail(payload.models[at[k]].name)]

Range(seq) == {seq[k] : k \in DOMAIN seq}

PreferenceRank(id) == CHOOSE k \in DOMAIN PREFERRED_MODEL_ORDER : PREFERRED_MODEL_ORDER[k] = id

\* C21: the list a listing call resolves is the entries of the preference
\* list that are among the eligible listed models, in the order of the
\* preference list, followed by the other eligible listed models in listing
\* order without those whose identifier contains "embedding"; the cache
\* is replaced with this list.
C21_PreferredThenListed ==
    \A r \in Reqs :
        req[r].listed = "ok" =>
            LET eligible == EligibleIds(req[r].payload)
                list == req[r].candidates
                preferred == Range(PREFERRED_MODEL_ORDER) \cap Range(eligible)
                n == Cardinality(preferred)
                Other(id) == id \notin Range(PREFERRED_MODEL_ORDER)
                             /\ "embedding" \notin Range(id)
            IN  /\ Len(list) >= n
                /\ {list[k] : k \in 1..n} = preferred
                /\ \A j, k \in 1..n : j < k => PreferenceRank(list[j]) < PreferenceRank(list[k])
                /\ SubSeq(list, n + 1, Len(list)) = SelectSeq(eligible, Other)
                /\ req[r].writeVer = cacheVersion => cachedModels = list

\* a listing of four models: another model, the third of the preference
\* list, an embedding model that advertises generateContent, and the first
\* of the preference list
C21_Witness ==
    \E r \in Reqs :
        /\ req[r].listed = "ok"
        /\ EligibleIds(req[r].payload) =
              << <<"gemini-2.0-flash">>, <<"gemini-pro">>, <<"text-", "embedding", "-004">>,
                 <<"gemini-1.5-pro-latest">> >>
        /\ req[r].candidates =
              << <<"gemini-1.5-pro-latest">>, <<"gemini-pro">>, <<"gemini-2.0-flash">> >>
        /\ cachedModels = req[r].candidates

\* the requests whose refresh was the n-th write of the cache
WritersOf(n) == {a \in Reqs : req[a].listed = "ok" /\ req[a].writeVer = n}

\* C22: in every state the cached list and the cache timestamp are those of
\* one refresh, the last one that wrote (or both are the initial values),
\* and every request served from the cache was given the list of the refresh
\* whose timestamp its check of the age read.
C22_CacheWrittenTogether ==
    /\ IF cacheVersion = 0
       THEN cachedModels = <<>> /\ lastModelFetchTime = 0
       ELSE \E a \in WritersOf(cacheVersion) :
               /\ WritersOf(cacheVersion) = {a}
               /\ cachedModels = req[a].candidates
               /\ lastModelFetchTime = req[a].now
    /\ \A b \in Reqs :
          req[b].hit =>
             \E a \in WritersOf(req[b].startVer) :
                /\ req[b].candidates = req[a].candidates
                /\ req[a].candidates # <<>>
                /\ req[b].now - req[a].now < CACHE_DURATION_MS

\* two requests were awaiting their listing calls at the same time, and both
\* refreshed the cache, with different lists and different start times
C22_Witness ==
    \E a, b \in Reqs :
        /\ req[a].listed = "ok" /\ req[b].listed = "ok"
        /\ req[b].writeVer = 1
        /\ req[a].writeVer = 2 /\ req[a].startVer = 0
        /\ req[a].candidates # req[b].candidates
        /\ req[a].now # req[b].now
        /\ cachedModels = req[a].candidates
        /\ lastModelFetchTime = req[a].now

\* the version of the cache that request r resolved its candidates from
ResolvedAt(r) == IF req[r].hit THEN req[r].startVer ELSE req[r].writeVer

\* C25: once a request has resolved its candidates, no step changes its list,
\* whatever another request writes to the cache, and each of its open
\* attempts is for the next entry of that list.
C25_CandidatesSnapshot ==
    [][\A r \in Reqs :
          ResolutionReturned(r) =>
             /\ req'[r].candidates = req[r].candidates
             /\ req'[r].i \in {req[r].i, req[r].i + 1}
             /\ Len(req'[r].log) > Len(req[r].log) =>
                   /\ Len(req'[r].log) = Len(req[r].log) + 1
                   /\ req'[r].log[Len(req'[r].log)][2] = req[r].candidates[req[r].i]]_vars

\* a request is suspended in the open attempt of its second candidate, the
\* first having failed, while the cache, refreshed since the request
\* resolved its list, holds another list
C25_Witness ==
    \E r \in Reqs :
        /\ req[r].pc = "opening"
        /\ req[r].i = 2
        /\ req[r].log[3] = <<"open", req[r].candidates[2]>>
        /\ cacheVersion > ResolvedAt(r)
        /\ cachedModels # req[r].candidates
        /\ cachedModels # <<>>

\* C26 as stated: no step decreases the cache timestamp.
C26_AsStated ==
    [][lastModelFetchTime' >= lastModelFetchTime]_vars

\* C26 amended: the cache timestamp is never later than the clock; a step
\* changes it only by a refresh, to the time at which that refresh started;
\* so it decreases only when a refresh that started earlier completes after
\* one that started later.
C26_StampIsStartOfLastRefresh ==
    [][/\ lastModelFetchTime' <= clock'
       /\ lastModelFetchTime' # lastModelFetchTime =>
             \E a \in Reqs :
                /\ req[a].pc = "listing"
                /\ req'[a].listed = "ok"
                /\ req'[a].writeVer = cacheVersion + 1
                /\ cacheVersion' = cacheVersion + 1
                /\ lastModelFetchTime' = req[a].now
                /\ lastModelFetchTime' < lastModelFetchTime =>
                      \E b \in WritersOf(cacheVersion) : req[a].now < req[b].now]_vars

\* the request that started first received its listing last: the cache
\* timestamp went back to its start time
C26_Witness ==
    \E a, b \in Reqs :
        /\ req[b].listed = "ok" /\ req[b].writeVer = 1
        /\ req[a].listed = "ok" /\ req[a].writeVer = 2
        /\ req[a].now < req[b].now
        /\ cacheVersion = 2
        /\ lastModelFetchTime = req[a].now

\* C17 as stated: the output stream never holds more than one chunk that was
\* read from upstream and is not yet delivered to the caller.
C17_AtMostOneChunkQueued ==
    \A r \in Reqs : Len(req[r].stream.queue) <= 1

\* the concatenation of a sequence of sequences
RECURSIVE Flatten(_)
Flatten(seqs) == IF seqs = <<>> THEN <<>> ELSE Head(seqs) \o Flatten(Tail(seqs))

\* C18: while the upstream of a returned stream has not failed, the bytes
\* delivered and the bytes queued are, in this order, the UTF-8 encoding of
\* the concatenation of the texts of the upstream chunks of the candidate
\* that opened; when the stream has ended cleanly and is closed, the bytes
\* delivered are the whole of it.
C18_BodyIsConcatenation ==
    \A r \in Reqs :
        req[r].stream.upstream \in {"live", "ended"} =>
            LET s == req[r].stream IN
            /\ s.model = req[r].candidates[req[r].i]
            /\ Flatten(s.delivered) \o Flatten(s.queue) = Encode(Flatten(s.produced))
            /\ s.state = "closed" =>
                  (s.upstream = "ended" /\ s.queue = <<>>
                   /\ Flatten(s.delivered) = Encode(Flatten(s.produced)))

\* the second candidate opened after the first failed, produced two texts,
\* one of them a character of two bytes, and the caller has read the body
\* to its end
C18_Witness ==
    \E r \in Reqs :
        /\ req[r].stream.state = "closed"
        /\ req[r].stream.upstream = "ended"
        /\ req[r].i = 2
        /\ req[r].stream.produced = << <<97>>, <<233>> >>
        /\ Flatten(req[r].stream.delivered) = <<97, 195, 169>>

-----------------------------------------------------------------------------
(* Properties of the transcript sent upstream *)

\* the transcript of request r has been translated for a candidate
Translated(r) == req[r].log # <<>>

MessagesOf(r) == req[r].body.messages.arr

NonBlank(text) == \E j \in DOMAIN text : ~IsSpace(text[j])

\* the positions of the messages with a non-blank text or an image, in order
KeptIndexes(messages) ==
    LET Keep(j) == NonBlank(messages[j].content) \/ messages[j].image.present
    IN  SelectSeq([j \in 1..Len(messages) |-> j], Keep)

TextParts(turn) == {p \in DOMAIN turn.parts : turn.parts[p].kind = "text"}

ImageParts(turn) == {p \in DOMAIN turn.parts : turn.parts[p].kind = "inlineData"}

\* C19 as stated: the turn of every kept message has a text part only when
\* the trimmed content is not empty, and that part is the trimmed content;
\* it has an image part only when the message has an image, and the text
\* part comes before the image part.
C19_TrimmedTextThenImage ==
    \A r \in Reqs :
        Translated(r) =>
            LET idx == KeptIndexes(MessagesOf(r)) IN
            /\ Len(req[r].contents) = Len(idx)
            /\ \A k \in DOMAIN idx :
                  LET message == MessagesOf(r)[idx[k]]
                      turn == req[r].contents[k]
                  IN  /\ (TextParts(turn) # {}) = (Trim(message.content) # <<>>)
                      /\ (ImageParts(turn) # {}) = message.image.present
                      /\ \A p \in TextParts(turn) : turn.parts[p].text = Trim(message.content)
                      /\ \A p \in TextParts(turn), q \in ImageParts(turn) : p < q

\* C20: the turns sent upstream are, in the order of the transcript, one for
\* each message that has a non-blank text or an image, tagged "model" when
\* the message's role is assistant and "user" otherwise; a message with
\* neither has no turn.
C20_KeptInOrder ==
    \A r \in Reqs :
        Translated(r) =>
            LET idx == KeptIndexes(MessagesOf(r)) IN
            /\ Len(req[r].contents) = Len(idx)
            /\ \A k \in DOMAIN idx :
                  LET message == MessagesOf(r)[idx[k]]
                      turn == req[r].contents[k]
                  IN  /\ turn.role = (IF message.role = "assistant" THEN "model" ELSE "user")
                      /\ turn.parts # <<>>
                      /\ Cardinality(TextParts(turn)) = (IF NonBlank(message.content) THEN 1 ELSE 0)
                      /\ Cardinality(ImageParts(turn)) = (IF message.image.present THEN 1 ELSE 0)
                      /\ \A p \in TextParts(turn) :
                            Trim(turn.parts[p].text) = Trim(message.content)
                      /\ \A p \in ImageParts(turn) :
                            /\ turn.parts[p].mimeType = message.image.mimeType
                            /\ turn.parts[p].data = message.image.data

\* a transcript of three messages, an image-only message of the user, the
\* empty placeholder of the assistant, and a text of another role: the
\* second one is dropped and two turns are sent
C20_Witness ==
    \E r \in Reqs :
        /\ Translated(r)
        /\ Len(MessagesOf(r)) = 3
        /\ MessagesOf(r)[1] = [role |-> "user", content |-> <<32>>, image |-> Png]
        /\ MessagesOf(r)[2] = [role |-> "assistant", content |-> <<>>, image |-> NoImage]
        /\ MessagesOf(r)[3].role = "system" /\ NonBlank(MessagesOf(r)[3].content)
        /\ Len(req[r].contents) = 2
        /\ req[r].contents[1].role = "user"
        /\ req[r].contents[2].role = "user"

-----------------------------------------------------------------------------
(* Properties of the reducer *)

\* C10: a call of sendMessage while isStreaming changes no session (so no
\* message list and no length) and issues no request.
C10_SubmitWhileStreamingNoOp ==
    [][(SendMessage /\ isStreaming) => (chats' = chats /\ subs' = subs)]_vars

C10_Witness ==
    /\ isStreaming
    /\ refused
    /\ inputImage.present
    /\ \E s \in DOMAIN subs : subs[s].pc = "reading" /\ subs[s].reads > 0

\* C11: after every accepted submission isStreaming returns to false, the
\* submission having left sendMessage by one of its exits, when the request
\* and every read of the body settle.
C11_StreamingReleased ==
    \A n \in 1..MaxSubmits :
        (Len(subs) >= n) ~> (Len(subs) >= n /\ subs[n].pc = "done" /\ ~isStreaming)

\* both submissions are over, one by a clean end of the body and one by an
\* exception after a chunk
C11_Witness ==
    /\ ~isStreaming
    /\ \E s, t \in DOMAIN subs :
          /\ subs[s].pc = "done" /\ subs[s].failure = <<>> /\ subs[s].reads > 0
          /\ subs[t].pc = "done" /\ subs[t].failure = FallbackThrown /\ subs[t].reads > 0

\* the placeholder of submission s: the messages with its id in the session
\* that originated s (none when that session has been discarded)
Placeholders(s) ==
    { chats[q[1]].messages[q[2]] :
        q \in { p \in (DOMAIN chats) \X (1..(2 * MaxSubmits)) :
                         /\ chats[p[1]].id = subs[s].chatId
                         /\ p[2] \in DOMAIN chats[p[1]].messages
                         /\ chats[p[1]].messages[p[2]].id = subs[s].assistantId } }

\* the bytes of an incomplete character at the end of a body
OpenTail(bytes) ==
    IF bytes # <<>> /\ IsLead(bytes[Len(bytes)]) THEN <<bytes[Len(bytes)]>> ELSE <<>>

\* C12: while a submission has not failed, after each chunk the placeholder's
\* content is the decoding of the concatenation of the chunks received so
\* far, however the body was cut into chunks; when those bytes are
\* well-formed UTF-8, they are the encoding of the content, followed by the
\* first byte of a character the last chunk left incomplete.
C12_ChunksConcatenated ==
    \A s \in DOMAIN subs :
        subs[s].failure = <<>> =>
            \A m \in Placeholders(s) :
                /\ m.content = DecodeStream(<<>>, subs[s].received).text
                /\ (\A k \in DOMAIN m.content : m.content[k] # Replacement)
                   => Encode(m.content) \o OpenTail(subs[s].received) = subs[s].received

\* a body that ended cleanly after two chunks which are the two bytes of one
\* character
C12_Witness ==
    \E s \in DOMAIN subs :
        /\ subs[s].pc = "done" /\ subs[s].failure = <<>>
        /\ subs[s].reads = 2
        /\ subs[s].received = <<195, 169>>
        /\ \E m \in Placeholders(s) : m.content = <<233>>

\* a step in which submission s applies a chunk or a failure string
UpdateBy(s) ==
    /\ s \in DOMAIN subs'
    /\ subs'[s].reads # subs[s].reads \/ subs'[s].failure # subs[s].failure

\* what submission s writes in such a step
Written(s) ==
    IF subs'[s].failure # subs[s].failure THEN subs'[s].failure
    ELSE subs'[s].fullAssistantText

\* C13: every chunk update and every failure update of a submission sets the
\* content of the placeholder in the session that originated the submission,
\* whichever session is active then, and changes nothing else: no other
\* session, no other message, no title.
C13_UpdateKeyedToOrigin ==
    [][\A s \in DOMAIN subs :
          UpdateBy(s) =>
             /\ DOMAIN chats' = DOMAIN chats
             /\ \A k \in DOMAIN chats :
                   IF chats[k].id # subs[s].chatId THEN chats'[k] = chats[k]
                   ELSE /\ chats'[k].id = chats[k].id
                        /\ chats'[k].title = chats[k].title
                        /\ DOMAIN chats'[k].messages = DOMAIN chats[k].messages
                        /\ \A j \in DOMAIN chats[k].messages :
                              IF chats[k].messages[j].id # subs[s].assistantId
                              THEN chats'[k].messages[j] = chats[k].messages[j]
                              ELSE chats'[k].messages[j] =
                                     [chats[k].messages[j] EXCEPT !.content = Written(s)]
             /\ \A m \in Placeholders(s)' : m.content = Written(s)]_vars

\* a submission failed after a chat was started during its flight: the new
\* chat is the active one, the banner is the failure's, and the placeholder
\* of the originating session holds the failure string after a chunk
C13_Witness ==
    \E s \in DOMAIN subs :
        /\ subs[s].failure = FallbackThrown /\ subs[s].reads > 0
        /\ errorMessage = subs[s].failure
        /\ HasActiveChat
        /\ ActiveChat.id # subs[s].chatId
        /\ ActiveChat.id > subs[s].assistantId
        /\ ActiveChat.messages = <<>>
        /\ \E m \in Placeholders(s) : m.content = subs[s].failure

\* a step in which submission s ends by one of the failure paths
FailureOf(s) == s \in DOMAIN subs' /\ subs'[s].failure # subs[s].failure

\* the session that originated submission s is in the collection
OriginKept(s) == \E k \in DOMAIN chats : chats[k].id = subs[s].chatId

\* C14 as stated: when a submission ends by a failure path, its placeholder
\* has one of the two failure strings as content and the banner shows the
\* same string, whatever new-chat, select-chat and clear-all did meanwhile.
C14_AsStated ==
    [][\A s \in DOMAIN subs :
          FailureOf(s) =>
             /\ subs'[s].failure \in {FallbackNotOk, FallbackThrown}
             /\ errorMessage' = subs'[s].failure
             /\ \E m \in Placeholders(s)' : m.content = subs'[s].failure]_vars

\* C14 amended: when a submission ends by a failure path, the banner shows
\* one of the two failure strings (the second one for an exception in the
\* read loop), and the placeholder has that string as content from then on
\* if the originating session is still in the collection; if clear-all
\* discarded it, no session changes.
C14_FailureShown ==
    [][/\ \A s \in DOMAIN subs :
             FailureOf(s) =>
                /\ subs'[s].failure \in {FallbackNotOk, FallbackThrown}
                /\ subs[s].pc = "reading" => subs'[s].failure = FallbackThrown
                /\ errorMessage' = subs'[s].failure
                /\ ~isStreaming'
                /\ IF OriginKept(s)
                   THEN \E m \in Placeholders(s)' : m.content = subs'[s].failure
                   ELSE chats' = chats
       /\ \A s \in DOMAIN subs' :
             subs'[s].failure # <<>> =>
                \A m \in Placeholders(s)' : m.content = subs'[s].failure]_vars

\* a request answered with a non-success status, after another session was
\* made the active one during the flight
C14_Witness ==
    \E s \in DOMAIN subs :
        /\ subs[s].failure = FallbackNotOk
        /\ errorMessage = FallbackNotOk
        /\ ~isStreaming
        /\ ActiveChat.id # subs[s].chatId
        /\ \E m \in Placeholders(s) : m.content = FallbackNotOk

-----------------------------------------------------------------------------
(* Properties of the titles *)

UserIndexes(messages) == {j \in DOMAIN messages : messages[j].role = "user"}

FirstUser(messages) ==
    messages[CHOOSE j \in UserIndexes(messages) : \A i \in UserIndexes(messages) : j <= i]

\* t is exactly the first n characters of text (all of it when it is shorter)
IsPrefixOfLength(t, text, n) ==
    /\ Len(t) = (IF Len(text) < n THEN Len(text) ELSE n)
    /\ \A i \in DOMAIN t : t[i] = text[i]

\* C15: in every state the title of every session is the title derived from
\* its current messages: "New Chat" when there is no user message, and the
\* first 50 characters of the trimmed text of the first user message when
\* that text is not blank.
C15_TitleDerived ==
    \A k \in DOMAIN chats :
        LET messages == chats[k].messages IN
        /\ chats[k].title = DeriveTitle(messages)
        /\ UserIndexes(messages) = {} => chats[k].title = TitleNewChat
        /\ (UserIndexes(messages) # {} /\ Trim(FirstUser(messages).content) # <<>>)
           => IsPrefixOfLength(chats[k].title, Trim(FirstUser(messages).content), 50)

\* a session whose first user message is longer than 50 characters, after
\* chunks have been written to its placeholder, beside a session with no
\* message
C15_Witness ==
    /\ \E k \in DOMAIN chats :
          /\ Len(chats[k].messages) = 2
          /\ Len(chats[k].messages[1].content) > 50
          /\ chats[k].messages[2].content # <<>>
          /\ Len(chats[k].title) = 50
    /\ \E k \in DOMAIN chats : chats[k].messages = <<>> /\ chats[k].title = TitleNewChat

\* C16 as stated: in every state the title of every session has at most 50
\* characters, whether the first submission had a text, an image, or both.
C16_TitleAtMost50 ==
    \A k \in DOMAIN chats : Len(chats[k].title) <= 50

-----------------------------------------------------------------------------
(* Properties of the sessions *)

MessageIds(chat) == [j \in DOMAIN chat.messages |-> chat.messages[j].id]

IsPrefix(a, b) == Len(a) <= Len(b) /\ \A j \in DOMAIN a : b[j] = a[j]

\* a step in which sendMessage passes its guard
Accepted == Len(subs') = Len(subs) + 1

\* C23: every step leaves the message ids of every session it keeps as a
\* prefix of that session's new message ids; a step in which a submission is
\* accepted appends to the active session, and to no other, one user message
\* with the trimmed draft and the draft image, and right after it the
\* assistant placeholder with an empty content, both with fresh ids.
C23_AppendOnly ==
    [][/\ \A k \in DOMAIN chats, n \in DOMAIN chats' :
             chats'[n].id = chats[k].id => IsPrefix(MessageIds(chats[k]), MessageIds(chats'[n]))
       /\ \A k \in DOMAIN chats :
             LET old == chats[k].messages IN
             IF Accepted /\ chats[k].id = ActiveChat.id
             THEN /\ chats'[k].id = chats[k].id
                  /\ Len(chats'[k].messages) = Len(old) + 2
                  /\ SubSeq(chats'[k].messages, 1, Len(old)) = old
                  /\ LET user == chats'[k].messages[Len(old) + 1]
                         placeholder == chats'[k].messages[Len(old) + 2]
                     IN  /\ user.role = "user"
                         /\ user.content = Trim(input)
                         /\ user.image = inputImage
                         /\ placeholder.role = "assistant"
                         /\ placeholder.content = <<>>
                         /\ placeholder.id = subs'[Len(subs')].assistantId
                         /\ user.id # placeholder.id
                         /\ \A c \in DOMAIN chats :
                               \A j \in DOMAIN chats[c].messages :
                                  chats[c].messages[j].id \notin {user.id, placeholder.id}
             ELSE \A n \in DOMAIN chats' :
                     chats'[n].id = chats[k].id
                     => Len(chats'[n].messages) = Len(chats[k].messages)]_vars

\* a session with the messages of two submissions, the first answered by
\* chunks and the second failed
C23_Witness ==
    \E k \in DOMAIN chats :
        /\ Len(chats[k].messages) = 4
        /\ chats[k].messages[1].role = "user"
        /\ chats[k].messages[2].role = "assistant"
        /\ chats[k].messages[2].content # <<>>
        /\ chats[k].messages[3].role = "user"
        /\ chats[k].messages[4].content = FallbackThrown

\* the submissions whose request or read loop has not ended
InFlight == {s \in DOMAIN subs : subs[s].pc \in {"fetching", "reading"}}

\* C24: in every state at most one submission is in flight, over all
\* sessions, and isStreaming is true exactly when one is.
C24_OneInFlight ==
    /\ Cardinality(InFlight) <= 1
    /\ isStreaming = (InFlight # {})

\* the second submission, made in another session than the first, is in
\* flight after the first has ended
C24_Witness ==
    /\ isStreaming
    /\ Len(subs) = 2
    /\ subs[1].pc = "done"
    /\ subs[2].pc = "reading"
    /\ subs[1].chatId # subs[2].chatId

\* the mount effect has created the first session
Initialized == nextId > 0

\* C27: once the mount effect has run, the session collection is never empty
\* and activeChatId is the id of one of its sessions, whatever new-chat,
\* clear-all, select-chat, submit, chunk and failure events follow.
C27_ActiveChatExists ==
    Initialized =>
        /\ chats # <<>>
        /\ \E k \in DOMAIN chats : chats[k].id = activeChatId

\* the collection was replaced while a submission of the replaced session is
\* in flight: the only session is the new one, and it is the active one
C27_Witness ==
    /\ Len(chats) = 1
    /\ chats[1].id = activeChatId
    /\ chats[1].messages = <<>>
    /\ \E s \in DOMAIN subs : subs[s].pc = "reading" /\ subs[s].chatId # activeChatId

\* the ids of the sessions, in the collection's order
SessionOrder(sessions) == [k \in DOMAIN sessions |-> sessions[k].id]

\* C28: a chunk update or a failure update leaves activeChatId, the draft and
\* the order of the sessions as they were; in every session every message
\* other than the placeholder is unchanged and the placeholder keeps its id,
\* role and image; and when the originating session is no longer in the
\* collection, the collection is unchanged.
C28_UpdateFrame ==
    [][\A s \in DOMAIN subs :
          UpdateBy(s) =>
             /\ activeChatId' = activeChatId
             /\ input' = input /\ inputImage' = inputImage
             /\ SessionOrder(chats') = SessionOrder(chats)
             /\ \A k \in DOMAIN chats :
                   /\ Len(chats'[k].messages) = Len(chats[k].messages)
                   /\ \A j \in DOMAIN chats[k].messages :
                         LET old == chats[k].messages[j]
                             new == chats'[k].messages[j]
                         IN  /\ new.id = old.id
                             /\ new.role = old.role
                             /\ new.image = old.image
                             /\ new.content # old.content
                                   => /\ old.id = subs[s].assistantId
                                      /\ chats[k].id = subs[s].chatId
             /\ ~OriginKept(s) => chats' = chats]_vars

\* a failure was applied after the collection was replaced: the banner shows
\* it, and the only session, the new one, has no message
C28_Witness ==
    \E s \in DOMAIN subs :
        /\ subs[s].failure # <<>>
        /\ errorMessage = subs[s].failure
        /\ subs[s].reads > 0
        /\ ~OriginKept(s)
        /\ Len(chats) = 1 /\ chats[1].messages = <<>>

====
